---- MODULE Spec2Model ----
(***************************************************************************)
(* Product catalogue service: ProductsService (products.service.ts) over   *)
(* the products repository and MinioSimpleService (minio.service.ts).      *)
(* Every request is a task that suspends at each repository call and each  *)
(* object-store call; one action models the code between two suspensions.  *)
(***************************************************************************)
EXTENDS Integers, Sequences, FiniteSets, TLC

VARIABLES db, store, now, req

vars == <<db, store, now, req>>

\* ------------------------------------------------------------------ bounds
MaxProducts == 2
MaxImageProducts == 1
MaxClock == 1
MaxStock == 1

\* Request slots: the sequential specification uses the first one only.
Procs == {1, 2}
SeqProcs == {1}

\* ------------------------------------------------------- optional values
\* undefined / a missing field is None, a present value v is Some(v).
None == <<>>
Some(v) == <<v>>
Val(o) == o[1]

Last(s) == s[Len(s)]

\* ------------------------------------------------------ MinioSimpleService
\* Configuration read through ConfigService.
Bucket == "bucket"
Endpoint == "minio:9000"
Protocol == "http:"

\* 7 * 24 * 60 * 60 seconds.
expiresIn == 604800

\* `product-${productId}-${Date.now()}.jpg`
FileNameOf(productId, t) == <<"product", productId, t, "jpg">>

\* `${protocol}://${endpoint}:${port}/${bucketName}/${fileName}`, kept as its
\* '/'-separated segments.
ObjectUrl(fileName) ==
  [signed |-> FALSE, path |-> <<Protocol, "", Endpoint, Bucket, fileName>>, expires |-> 0]

\* What presignedGetObject(bucketName, fileName, expiresIn) hands back.
Presigned(fileName) ==
  [signed |-> TRUE, path |-> <<Bucket, fileName>>, expires |-> expiresIn]

\* getSignedUrl: null for a missing file name and for any signer error,
\* which is caught; the signed URL otherwise.
getSignedUrl(fileName, signerOk) ==
  IF fileName = None
    THEN None
    ELSE IF signerOk THEN Some(Presigned(fileName)) ELSE None

\* imageUrl.split('/').pop()
SplitPop(imageUrl) == Last(imageUrl.path)

\* ------------------------------------------------ the products repository
\* A stored product. stockQuantity and imageUrl are optional.
Product(id, stockQuantity, inStock, imageUrl, isDeleted) ==
  [id |-> id, stockQuantity |-> stockQuantity, inStock |-> inStock,
   imageUrl |-> imageUrl, isDeleted |-> isDeleted]

\* The products with an id in ids, in increasing id order.
RECURSIVE SelectIds(_, _)
SelectIds(ids, includeDeleted) ==
  IF ids = {} THEN <<>>
  ELSE LET m == CHOOSE x \in ids : \A y \in ids : x <= y
           rest == SelectIds(ids \ {m}, includeDeleted)
       IN IF includeDeleted \/ ~db[m].isDeleted THEN <<db[m]>> \o rest ELSE rest

\* findAll(filters): the products in id order, the soft-deleted ones only
\* with includeDeleted.
RepoFindAll(includeDeleted) == SelectIds(DOMAIN db, includeDeleted)

\* findById(id): the product, or absent.
RepoFindById(id) == IF id \in DOMAIN db THEN Some(db[id]) ELSE None

\* create(fields): the repository assigns the id; inStock defaults to true.
RepoCreate(fields) ==
  LET id == Cardinality(DOMAIN db) + 1
  IN [i \in DOMAIN db \cup {id} |->
        IF i = id
          THEN Product(id, fields.stockQuantity,
                       IF fields.inStock = None THEN TRUE ELSE Val(fields.inStock),
                       None, FALSE)
          ELSE db[i]]

\* update(id, patch): a partial update, the fields the patch sets.
RepoUpdate(id, patch) ==
  [db EXCEPT ![id] =
     [@ EXCEPT !.stockQuantity = IF patch.stockQuantity = None THEN @ ELSE patch.stockQuantity,
               !.inStock = IF patch.inStock = None THEN @ ELSE Val(patch.inStock),
               !.imageUrl = IF patch.imageUrl = None THEN @ ELSE patch.imageUrl]]

\* softDelete(id): flips the flag.
RepoSoftDelete(id) == [db EXCEPT ![id].isDeleted = TRUE]

\* --------------------------------------------------------- ProductsService
\* Image resolution that keeps the stored URL when there is no signed one.
ResolveImageKeepsRaw(product, signerOk) ==
  IF product.imageUrl # None
    THEN LET signedUrl == getSignedUrl(SplitPop(Val(product.imageUrl)), signerOk)
         IN IF signedUrl # None THEN [product EXCEPT !.imageUrl = signedUrl] ELSE product
    ELSE product

\* The "resolve image" routine every read path repeats: a stored imageUrl is
\* replaced by its signed URL, or deleted from the object when there is none.
ResolveImage(product, signerOk) ==
  IF product.imageUrl # None
    THEN LET signedUrl == getSignedUrl(SplitPop(Val(product.imageUrl)), signerOk)
         IN IF signedUrl # None
              THEN [product EXCEPT !.imageUrl = signedUrl]
              ELSE [product EXCEPT !.imageUrl = None]
    ELSE product

\* const { isDeleted, ...productData } = product
Strip(product) ==
  [id |-> product.id, stockQuantity |-> product.stockQuantity,
   inStock |-> product.inStock, imageUrl |-> product.imageUrl]

\* The results in the order the tasks completed in.
PromiseAllByCompletion(out, order) == [k \in 1..Len(order) |-> out[order[k]]]

\* await Promise.all(products.map(async ...)): the results by position in
\* products, whatever the order the tasks completed in.
PromiseAll(out, order) == out

\* ---------------------------------------------------------------- requests
\* Caller inputs: an update patch or create body, list filters, an upload.
Stocks == {None} \cup {Some(n) : n \in 0..MaxStock}
Flags == {None, Some(TRUE), Some(FALSE)}
MimeTypes == {<<"image", "png">>, <<"text", "plain">>}
Files == {None} \cup {Some(m) : m \in MimeTypes}

\* file.mimetype.startsWith('image/'), the mimetype kept as <<type, subtype>>.
StartsWithImage(mimetype) == mimetype[1] = "image"

NoArg == [stockQuantity |-> None, inStock |-> None, includeDeleted |-> None, file |-> None]
NoDto == [stockQuantity |-> None, inStock |-> None, imageUrl |-> None, includeDeleted |-> None]
NoRes == [kind |-> "none", body |-> <<>>]

\* A request slot: op, id and arg are the call as the caller made it; dto is
\* the object handed to the repository; prod (the product findById found),
\* updated (the product update returned), items, pending, order, out and
\* fileName are the handler's locals; calls are the repository writes and
\* object-store calls the handler has made; res is what the caller gets.
Idle ==
  [op |-> "none", pc |-> "idle", id |-> 0, arg |-> NoArg, dto |-> NoDto,
   prod |-> None, updated |-> None, items |-> <<>>, pending |-> {}, order |-> <<>>, out |-> <<>>,
   fileName |-> None, calls |-> {}, res |-> NoRes]

Call(op, id, arg) == [Idle EXCEPT !.op = op, !.id = id, !.arg = arg]

Free(p) == req[p].pc \in {"idle", "done"}

Return(r, kind, body) == [r EXCEPT !.pc = "done", !.res = [kind |-> kind, body |-> body]]

Init ==
  /\ db = <<>>
  /\ store = {}
  /\ now = 0
  /\ req = [p \in Procs |-> Idle]

\* The ascending sequence of the members of a set of positions.
RECURSIVE Ascending(_)
Ascending(S) ==
  IF S = {} THEN <<>>
  ELSE LET m == CHOOSE x \in S : \A y \in S : x <= y IN <<m>> \o Ascending(S \ {m})

\* findAll up to the first suspension of every mapped task: the default for
\* includeDeleted, the repository's list, and each task run to its await (a
\* product without imageUrl has none, and is complete at once).
FindAllCall(p, includeDeleted) ==
  /\ Free(p)
  /\ LET r == Call("findAll", 0, [NoArg EXCEPT !.includeDeleted = includeDeleted])
         filter == IF includeDeleted = None THEN Some(FALSE) ELSE includeDeleted
         products == RepoFindAll(Val(filter))
         waiting == {i \in 1..Len(products) : products[i].imageUrl # None}
     IN req' = [req EXCEPT ![p] =
                  [r EXCEPT !.pc = "findAll_resolve",
                            !.dto = [NoDto EXCEPT !.includeDeleted = filter],
                            !.items = products,
                            !.pending = waiting,
                            !.order = Ascending((1..Len(products)) \ waiting),
                            !.out = [i \in 1..Len(products) |-> Strip(products[i])]]]
  /\ UNCHANGED <<db, store, now>>

\* One mapped task resumes from getSignedUrl and completes.
FindAllResolve(p, i, signerOk) ==
  /\ req[p].pc = "findAll_resolve"
  /\ i \in req[p].pending
  /\ req' = [req EXCEPT ![p] =
               [@ EXCEPT !.pending = @ \ {i},
                         !.order = Append(@, i),
                         !.out[i] = Strip(ResolveImage(req[p].items[i], signerOk)),
                         !.calls = @ \cup {IF signerOk THEN "signed" ELSE "signFailed"}]]
  /\ UNCHANGED <<db, store, now>>

\* Promise.all resolves once every task has completed.
FindAllJoin(p) ==
  /\ req[p].pc = "findAll_resolve"
  /\ req[p].pending = {}
  /\ req' = [req EXCEPT ![p] = Return(@, "ok", PromiseAll(req[p].out, req[p].order))]
  /\ UNCHANGED <<db, store, now>>

\* The check without its isDeleted half.
MissingOnly(product) == product = None

\* if (!product || product.isDeleted)
Missing(product) == product = None \/ Val(product).isDeleted

\* findById up to getSignedUrl.
FindByIdCall(p, id) ==
  /\ Free(p)
  /\ LET r == Call("findById", id, NoArg)
         product == RepoFindById(id)
     IN req' = [req EXCEPT ![p] =
                  IF Missing(product)
                    THEN Return(r, "NotFound", <<>>)
                    ELSE IF Val(product).imageUrl # None
                      THEN [r EXCEPT !.pc = "findById_sign", !.prod = product]
                      ELSE Return([r EXCEPT !.prod = product], "ok", <<Strip(Val(product))>>)]
  /\ UNCHANGED <<db, store, now>>

\* The handler resumes from getSignedUrl and returns the product.
Signed(r, product, signerOk) ==
  Return([r EXCEPT !.calls = @ \cup {IF signerOk THEN "signed" ELSE "signFailed"}],
         "ok", <<Strip(ResolveImage(product, signerOk))>>)

FindByIdSign(p, signerOk) ==
  /\ req[p].pc = "findById_sign"
  /\ req' = [req EXCEPT ![p] = Signed(@, Val(req[p].prod), signerOk)]
  /\ UNCHANGED <<db, store, now>>

\* create without its stock override.
CreateFieldsAsGiven(dto) == dto

\* if (createProductDto.stockQuantity === 0) createProductDto.inStock = false
CreateFields(dto) ==
  IF dto.stockQuantity = Some(0) THEN [dto EXCEPT !.inStock = Some(FALSE)] ELSE dto

\* create: the override, the repository's insert, the stripped product.
Create(p, stockQuantity, inStock, repoOk) ==
  /\ Free(p)
  /\ LET r == Call("create", 0, [NoArg EXCEPT !.stockQuantity = stockQuantity, !.inStock = inStock])
         dto == CreateFields([NoDto EXCEPT !.stockQuantity = stockQuantity, !.inStock = inStock])
         id == Cardinality(DOMAIN db) + 1
     IN IF repoOk
          THEN /\ db' = RepoCreate(dto)
               /\ req' = [req EXCEPT ![p] =
                            Return([r EXCEPT !.id = id, !.dto = dto, !.calls = {"create"},
                                             !.updated = Some(db'[id])],
                                   "ok", <<Strip(db'[id])>>)]
          ELSE /\ db' = db
               /\ req' = [req EXCEPT ![p] =
                            Return([r EXCEPT !.dto = dto, !.calls = {"create"}], "RepoError", <<>>)]
  /\ UNCHANGED <<store, now>>

\* update without its check of isDeleted.
UpdateRejectsMissingOnly(product) == IF product = None THEN "NotFound" ELSE ""

\* The error update answers a missing or soft-deleted product with, "" for
\* a product it goes on to update.
UpdateRejects(product) ==
  IF product = None THEN "NotFound"
  ELSE IF Val(product).isDeleted THEN "BadRequest"
  ELSE ""

\* update deriving inStock with >= in place of >.
UpdateFieldsAtLeastZero(dto) ==
  IF dto.stockQuantity # None
    THEN [dto EXCEPT !.inStock = Some(Val(dto.stockQuantity) >= 0)]
    ELSE dto

\* if (stockQuantity !== undefined) inStock = stockQuantity > 0
UpdateFields(dto) ==
  IF dto.stockQuantity # None
    THEN [dto EXCEPT !.inStock = Some(Val(dto.stockQuantity) > 0)]
    ELSE dto

\* update up to the repository's update.
UpdateCall(p, id, stockQuantity, inStock) ==
  /\ Free(p)
  /\ LET r == Call("update", id, [NoArg EXCEPT !.stockQuantity = stockQuantity, !.inStock = inStock])
         product == RepoFindById(id)
         error == UpdateRejects(product)
     IN req' = [req EXCEPT ![p] =
                  IF error # ""
                    THEN Return(r, error, <<>>)
                    ELSE [r EXCEPT !.pc = "update_write", !.prod = product,
                                   !.dto = UpdateFields([NoDto EXCEPT !.stockQuantity = stockQuantity,
                                                                      !.inStock = inStock])]]
  /\ UNCHANGED <<db, store, now>>

\* The repository applies the patch; the handler goes on to getSignedUrl, or
\* returns the product when it has no imageUrl.
UpdateWrite(p, repoOk) ==
  /\ req[p].pc = "update_write"
  /\ LET r == [req[p] EXCEPT !.calls = @ \cup {IF repoOk THEN "update" ELSE "updateFailed"}]
     IN IF repoOk
          THEN /\ db' = RepoUpdate(r.id, r.dto)
               /\ req' = [req EXCEPT ![p] =
                            IF db'[r.id].imageUrl # None
                              THEN [r EXCEPT !.pc = "update_sign", !.updated = Some(db'[r.id])]
                              ELSE Return([r EXCEPT !.updated = Some(db'[r.id])], "ok", <<Strip(db'[r.id])>>)]
          ELSE /\ db' = db
               /\ req' = [req EXCEPT ![p] = Return(r, "RepoError", <<>>)]
  /\ UNCHANGED <<store, now>>

UpdateSign(p, signerOk) ==
  /\ req[p].pc = "update_sign"
  /\ req' = [req EXCEPT ![p] = Signed(@, Val(req[p].updated), signerOk)]
  /\ UNCHANGED <<db, store, now>>

\* remove up to softDelete.
RemoveCall(p, id) ==
  /\ Free(p)
  /\ LET r == Call("remove", id, NoArg)
         product == RepoFindById(id)
     IN req' = [req EXCEPT ![p] =
                  IF Missing(product)
                    THEN Return(r, "NotFound", <<>>)
                    ELSE [r EXCEPT !.pc = "remove_write", !.prod = product]]
  /\ UNCHANGED <<db, store, now>>

RemoveWrite(p, repoOk) ==
  /\ req[p].pc = "remove_write"
  /\ LET r == [req[p] EXCEPT !.calls = @ \cup {"softDelete"}]
     IN IF repoOk
          THEN /\ db' = RepoSoftDelete(r.id)
               /\ req' = [req EXCEPT ![p] = Return(r, "ok", <<>>)]
          ELSE /\ db' = db
               /\ req' = [req EXCEPT ![p] = Return(r, "RepoError", <<>>)]
  /\ UNCHANGED <<store, now>>

\* The error uploadImage answers before its try block, "" when it goes on.
UploadRejects(product, file) ==
  IF Missing(product) THEN "NotFound"
  ELSE IF file = None THEN "BadRequest"
  ELSE IF ~StartsWithImage(Val(file)) THEN "BadRequest"
  ELSE ""

\* The handler at its call of uploadProductImage, which names the object
\* from Date.now(), here t, and starts putObject.
UploadStart(r, t) == [r EXCEPT !.pc = "upload_put", !.fileName = Some(FileNameOf(r.id, t))]

\* Date.now() reads t, a time not before the last one read.
Clock(t) == t \in now..MaxClock /\ now' = t

\* uploadImage up to its first object-store call: deleteFile when the
\* product has an image, putObject otherwise.
UploadCall(p, id, file, t) ==
  /\ Free(p)
  /\ LET r == Call("uploadImage", id, [NoArg EXCEPT !.file = file])
         product == RepoFindById(id)
         error == UploadRejects(product, file)
     IN IF error # ""
          THEN req' = [req EXCEPT ![p] = Return(r, error, <<>>)] /\ t = now /\ now' = now
          ELSE IF Val(product).imageUrl # None
            THEN /\ req' = [req EXCEPT ![p] = [r EXCEPT !.pc = "upload_delete", !.prod = product]]
                 /\ t = now /\ now' = now
            ELSE /\ req' = [req EXCEPT ![p] = UploadStart([r EXCEPT !.prod = product], t)]
                 /\ Clock(t)
  /\ UNCHANGED <<db, store>>

\* A catch that lets the underlying error through.
UploadFailedRethrows(r) == Return(r, "StoreError", <<>>)

\* The catch of uploadImage's try block.
UploadFailed(r) == Return(r, "Internal", <<>>)

\* deleteOldImage without its catch: deleteFile's error reaches uploadImage's.
DeleteOldImageRethrows(r, storeOk, t) ==
  IF storeOk
    THEN UploadStart([r EXCEPT !.calls = @ \cup {"deleteFile"}], t)
    ELSE UploadFailed([r EXCEPT !.calls = @ \cup {"deleteFileFailed"}])

\* deleteOldImage once deleteFile has settled: its catch swallows the
\* error deleteFile rethrows, and uploadImage goes on to the upload.
DeleteOldImage(r, storeOk, t) ==
  UploadStart([r EXCEPT !.calls = @ \cup {IF storeOk THEN "deleteFile" ELSE "deleteFileFailed"}], t)

\* removeObject removes the old object or fails.
UploadDelete(p, storeOk, t) ==
  /\ req[p].pc = "upload_delete"
  /\ store' = IF storeOk THEN store \ {SplitPop(Val(Val(req[p].prod).imageUrl))} ELSE store
  /\ req' = [req EXCEPT ![p] = DeleteOldImage(@, storeOk, t)]
  /\ Clock(t)
  /\ UNCHANGED db

\* putObject stores the object, and the handler calls the repository's
\* update with the object's URL; or putObject fails.
UploadPut(p, storeOk) ==
  /\ req[p].pc = "upload_put"
  /\ LET r == [req[p] EXCEPT !.calls = @ \cup {IF storeOk THEN "putObject" ELSE "putObjectFailed"}]
     IN IF storeOk
          THEN /\ store' = store \cup {Val(r.fileName)}
               /\ req' = [req EXCEPT ![p] =
                            [r EXCEPT !.pc = "upload_write",
                                      !.dto = [NoDto EXCEPT !.imageUrl = Some(ObjectUrl(Val(r.fileName)))]]]
          ELSE /\ store' = store
               /\ req' = [req EXCEPT ![p] = UploadFailed(r)]
  /\ UNCHANGED <<db, now>>

\* The repository sets imageUrl, and the handler goes on to getSignedUrl; or
\* the repository fails.
UploadWrite(p, repoOk) ==
  /\ req[p].pc = "upload_write"
  /\ LET r == [req[p] EXCEPT !.calls = @ \cup {IF repoOk THEN "update" ELSE "updateFailed"}]
     IN IF repoOk
          THEN /\ db' = RepoUpdate(r.id, r.dto)
               /\ req' = [req EXCEPT ![p] =
                            IF db'[r.id].imageUrl # None
                              THEN [r EXCEPT !.pc = "upload_sign", !.updated = Some(db'[r.id])]
                              ELSE Return([r EXCEPT !.updated = Some(db'[r.id])], "ok", <<Strip(db'[r.id])>>)]
          ELSE /\ db' = db
               /\ req' = [req EXCEPT ![p] = UploadFailed(r)]
  /\ UNCHANGED <<store, now>>

UploadSign(p, signerOk) ==
  /\ req[p].pc = "upload_sign"
  /\ req' = [req EXCEPT ![p] = Signed(@, Val(req[p].updated), signerOk)]
  /\ UNCHANGED <<db, store, now>>

\* ---------------------------------------------------------- specifications
Times == 0..MaxClock
Outcomes == BOOLEAN

\* The steps, in the request slots P, of the handlers that reach the object
\* store only for a product with an image. At most N products are created;
\* create and update take their stockQuantity from S and their inStock from
\* F; the repository's writes end as O says (TRUE: done, FALSE: an error).
CatalogueSteps(P, N, S, F, O) ==
  \/ \E p \in P, includeDeleted \in Flags : FindAllCall(p, includeDeleted)
  \/ \E p \in P : FindAllJoin(p)
  \/ \E p \in P, id \in 1..N : FindByIdCall(p, id)
  \/ \E p \in P, stockQuantity \in S, inStock \in F, repoOk \in O :
        Cardinality(DOMAIN db) < N /\ Create(p, stockQuantity, inStock, repoOk)
  \/ \E p \in P, id \in 1..N, stockQuantity \in S, inStock \in F :
        UpdateCall(p, id, stockQuantity, inStock)
  \/ \E p \in P, repoOk \in O : UpdateWrite(p, repoOk)
  \/ \E p \in P, id \in 1..N : RemoveCall(p, id)
  \/ \E p \in P, repoOk \in O : RemoveWrite(p, repoOk)

\* The steps of uploadImage and of every handler's image resolution; the
\* object store's and the repository's writes end as O says, the signer
\* either way.
ImageSteps(P, N, O) ==
  \/ \E p \in P, i \in 1..N, signerOk \in BOOLEAN : FindAllResolve(p, i, signerOk)
  \/ \E p \in P, signerOk \in BOOLEAN : FindByIdSign(p, signerOk)
  \/ \E p \in P, signerOk \in BOOLEAN : UpdateSign(p, signerOk)
  \/ \E p \in P, id \in 1..N, file \in Files, t \in Times : UploadCall(p, id, file, t)
  \/ \E p \in P, storeOk \in O, t \in Times : UploadDelete(p, storeOk, t)
  \/ \E p \in P, storeOk \in O : UploadPut(p, storeOk)
  \/ \E p \in P, repoOk \in O : UploadWrite(p, repoOk)
  \/ \E p \in P, signerOk \in BOOLEAN : UploadSign(p, signerOk)

\* The image pipeline: one request at a time on a catalogue of at most
\* MaxImageProducts products created without stock fields, every
\* repository write and object-store call free to fail.
Next ==
  \/ CatalogueSteps(SeqProcs, MaxImageProducts, {None}, {None}, Outcomes)
  \/ ImageSteps(SeqProcs, MaxImageProducts, Outcomes)

Spec == Init /\ [][Next]_vars

\* The stock rules: one request at a time, no uploads.
StockNext == CatalogueSteps(SeqProcs, MaxProducts, Stocks, Flags, Outcomes)

StockSpec == Init /\ [][StockNext]_vars

\* Listing: one request at a time on a catalogue of at most MaxProducts
\* products with images, the repository and the object store not failing.
ListNext ==
  \/ CatalogueSteps(SeqProcs, MaxProducts, {None}, {None}, {TRUE})
  \/ ImageSteps(SeqProcs, MaxProducts, {TRUE})

ListSpec == Init /\ [][ListNext]_vars

\* Concurrent requests: two requests in flight on one product, each
\* suspended at its repository and object-store calls, which do not fail.
ConcNext ==
  \/ CatalogueSteps(Procs, MaxImageProducts, {None, Some(0)}, {None}, {TRUE})
  \/ ImageSteps(Procs, MaxImageProducts, {TRUE})

ConcSpec == Init /\ [][ConcNext]_vars

\* ------------------------------------------------------------------ claims
Finished(p, op) == req[p].pc = "done" /\ req[p].op = op

\* The product a finished request named is missing or soft-deleted.
Gone(p) == req[p].id \notin DOMAIN db \/ db[req[p].id].isDeleted

\* C1 as stated: findById(id) and update(id, patch) on a nonexistent or
\* soft-deleted id both fail with NotFound.
C1_BothNotFound ==
  \A p \in Procs :
    (Finished(p, "findById") \/ Finished(p, "update")) /\ Gone(p)
      => req[p].res.kind = "NotFound"

\* C1 as amended: findById on a nonexistent or soft-deleted id and update on
\* a nonexistent id fail with NotFound; update on a soft-deleted id fails
\* with BadRequest, and neither makes a repository write.
C1_NotFoundOrBadRequest ==
  \A p \in Procs :
    /\ Finished(p, "findById") /\ Gone(p) => req[p].res.kind = "NotFound"
    /\ Finished(p, "update") /\ Gone(p) =>
         /\ req[p].res.kind =
              (IF req[p].id \notin DOMAIN db THEN "NotFound" ELSE "BadRequest")
         /\ req[p].calls = {}

\* update was called with a patch on a soft-deleted product and answered
\* BadRequest.
C1_Witness ==
  \E p \in Procs :
    /\ Finished(p, "update")
    /\ req[p].id \in DOMAIN db /\ db[req[p].id].isDeleted
    /\ req[p].arg.stockQuantity # None
    /\ req[p].res.kind = "BadRequest"

\* C2: create with stockQuantity 0 hands the repository inStock = false and
\* the stored and returned product has inStock = false, whatever inStock the
\* caller gave; with any other stockQuantity, or none, create hands the
\* repository the caller's inStock.
C2_CreateInStock ==
  \A p \in Procs :
    Finished(p, "create") =>
      IF req[p].arg.stockQuantity = Some(0)
        THEN /\ req[p].dto.inStock = Some(FALSE)
             /\ req[p].res.kind = "ok" =>
                  /\ db[req[p].id].inStock = FALSE
                  /\ req[p].res.body[1].inStock = FALSE
        ELSE /\ req[p].dto.inStock = req[p].arg.inStock
             /\ req[p].res.kind = "ok" /\ req[p].arg.inStock # None =>
                  db[req[p].id].inStock = Val(req[p].arg.inStock)

\* create({stockQuantity: 0, inStock: true}) has stored its product.
C2_Witness ==
  \E p \in Procs :
    /\ Finished(p, "create")
    /\ req[p].arg.stockQuantity = Some(0)
    /\ req[p].arg.inStock = Some(TRUE)
    /\ req[p].res.kind = "ok"
    /\ db[req[p].id].stockQuantity = Some(0)

\* C3: after a successful update whose patch sets stockQuantity, the stored
\* inStock is stockQuantity > 0, whatever inStock the patch and the product had;
\* a patch without stockQuantity reaches the repository with the caller's
\* inStock, and the stored inStock is that one, or the earlier one if none.
C3_UpdateInStock ==
  \A p \in Procs :
    Finished(p, "update") /\ req[p].res.kind = "ok" =>
      IF req[p].arg.stockQuantity # None
        THEN /\ req[p].dto.inStock = Some(Val(req[p].arg.stockQuantity) > 0)
             /\ db[req[p].id].stockQuantity = req[p].arg.stockQuantity
             /\ db[req[p].id].inStock = (Val(req[p].arg.stockQuantity) > 0)
        ELSE /\ req[p].dto.inStock = req[p].arg.inStock
             /\ db[req[p].id].inStock =
                  (IF req[p].arg.inStock = None
                     THEN Val(req[p].prod).inStock
                     ELSE Val(req[p].arg.inStock))

\* update(id, {stockQuantity: 0, inStock: true}) succeeded on a product
\* that was in stock.
C3_Witness ==
  \E p \in Procs :
    /\ Finished(p, "update") /\ req[p].res.kind = "ok"
    /\ req[p].arg.stockQuantity = Some(0)
    /\ req[p].arg.inStock = Some(TRUE)
    /\ Val(req[p].prod).inStock = TRUE
    /\ db[req[p].id].inStock = FALSE

\* The object key of a stored product's image.
KeyOf(product) == SplitPop(Val(product.imageUrl))

\* C4: a successful remove sets the product's isDeleted and nothing else, in
\* the repository or the object store; remove called on a soft-deleted
\* product answers NotFound at once, having called neither softDelete nor
\* the object store, and leaves the repository and the object store as
\* they were.
C4_RemoveOnce ==
  [][\A p \in Procs :
       /\ req[p].pc = "remove_write" /\ req'[p].pc = "done" /\ req'[p].res.kind = "ok"
            => /\ db' = [db EXCEPT ![req[p].id].isDeleted = TRUE]
               /\ store' = store
               /\ req'[p].calls = {"softDelete"}
       /\ ( /\ Free(p) /\ req'[p] # req[p] /\ req'[p].op = "remove"
            /\ req'[p].id \in DOMAIN db /\ db[req'[p].id].isDeleted )
            => /\ req'[p].pc = "done"
               /\ req'[p].res.kind = "NotFound"
               /\ req'[p].calls = {}
               /\ db' = db
               /\ store' = store]_vars

\* remove answered NotFound on a soft-deleted product whose image is still
\* in the object store.
C4_Witness ==
  \E p \in Procs :
    /\ Finished(p, "remove") /\ req[p].res.kind = "NotFound"
    /\ req[p].id \in DOMAIN db /\ db[req[p].id].isDeleted
    /\ db[req[p].id].imageUrl # None
    /\ KeyOf(db[req[p].id]) \in store

\* The product a finished findById, update or uploadImage got from the
\* repository and resolved the image of.
Resolved(p) == IF req[p].op = "findById" THEN req[p].prod ELSE req[p].updated

\* C5: findById, update, uploadImage and findAll succeed whether or not the
\* signer yields a URL; a product with a stored imageUrl is returned without
\* imageUrl when it yields none and with the signed URL when it yields one,
\* never with the stored URL.
C5_ResolveImage ==
  \A p \in Procs :
    /\ req[p].pc = "done" /\ req[p].calls \cap {"signed", "signFailed"} # {}
         => req[p].res.kind = "ok"
    /\ ( /\ req[p].pc = "done" /\ req[p].res.kind = "ok"
         /\ req[p].op \in {"findById", "update", "uploadImage"}
         /\ Val(Resolved(p)).imageUrl # None )
         => LET raw == Val(Val(Resolved(p)).imageUrl)
                img == req[p].res.body[1].imageUrl
            IN /\ ("signed" \in req[p].calls) # ("signFailed" \in req[p].calls)
               /\ "signFailed" \in req[p].calls => img = None
               /\ "signed" \in req[p].calls => img = Some(Presigned(SplitPop(raw)))
               /\ img # Some(raw)
    /\ Finished(p, "findAll")
         => /\ req[p].res.kind = "ok"
            /\ \A i \in 1..Len(req[p].items) :
                 req[p].items[i].imageUrl # None
                   => LET img == req[p].res.body[i].imageUrl
                          url == Some(Presigned(KeyOf(req[p].items[i])))
                      IN /\ img \in {None, url}
                         /\ "signed" \notin req[p].calls => img = None
                         /\ "signFailed" \notin req[p].calls => img = url

\* findById returned a product that has a stored imageUrl after the signer
\* failed.
C5_Witness ==
  \E p \in Procs :
    /\ Finished(p, "findById") /\ req[p].res.kind = "ok"
    /\ Val(req[p].prod).imageUrl # None
    /\ "signFailed" \in req[p].calls
    /\ req[p].res.body[1].imageUrl = None

\* C6: an uploadImage whose deletion of the old object failed still uploads
\* the new object, and succeeds with the record's imageUrl set to the new
\* URL when the upload and the repository update succeed.
C6_DeleteFailureIgnored ==
  \A p \in Procs :
    Finished(p, "uploadImage") /\ "deleteFileFailed" \in req[p].calls
      => /\ req[p].calls \cap {"putObject", "putObjectFailed"} # {}
         /\ "putObject" \in req[p].calls => Val(req[p].fileName) \in store
         /\ "putObject" \in req[p].calls /\ "update" \in req[p].calls
              => /\ req[p].res.kind = "ok"
                 /\ db[req[p].id].imageUrl = Some(ObjectUrl(Val(req[p].fileName)))

\* uploadImage succeeded on a product with an image although the deletion
\* of the old object failed.
C6_Witness ==
  \E p \in Procs :
    /\ Finished(p, "uploadImage") /\ req[p].res.kind = "ok"
    /\ Val(req[p].prod).imageUrl # None
    /\ "deleteFileFailed" \in req[p].calls
    /\ KeyOf(Val(req[p].prod)) \in store

\* C7: uploadImage answers NotFound for a missing or soft-deleted product
\* and BadRequest for a missing file or one whose type is no image type,
\* having made no object-store call and no repository write; past those
\* checks every failed upload or repository update is answered Internal.
C7_UploadErrors ==
  \A p \in Procs :
    Finished(p, "uploadImage") =>
      /\ req[p].res.kind \in {"ok", "NotFound", "BadRequest", "Internal"}
      /\ Gone(p) => req[p].res.kind = "NotFound"
      /\ ~Gone(p) /\ (req[p].arg.file = None \/ Val(req[p].arg.file)[1] # "image")
           => req[p].res.kind = "BadRequest"
      /\ req[p].res.kind \in {"NotFound", "BadRequest"} => req[p].calls = {}
      /\ req[p].calls \cap {"putObjectFailed", "updateFailed"} # {}
           => req[p].res.kind = "Internal"
      /\ req[p].res.kind = "Internal"
           => req[p].calls \cap {"putObjectFailed", "updateFailed"} # {}

\* uploadImage answered Internal after the repository update failed.
C7_Witness ==
  \E p \in Procs :
    /\ Finished(p, "uploadImage")
    /\ "updateFailed" \in req[p].calls
    /\ req[p].res.kind = "Internal"

\* The ids of a list of products.
IdsOf(products) == [i \in 1..Len(products) |-> products[i].id]

\* C8: findAll hands the repository includeDeleted = false when the caller
\* left it unset, so that the result holds no soft-deleted product unless
\* the caller set includeDeleted to true, when it holds every product; and
\* the result is as long as the repository's list and in its order.
C8_FindAll ==
  \A p \in Procs :
    Finished(p, "findAll") =>
      /\ req[p].dto.includeDeleted =
           (IF req[p].arg.includeDeleted = None THEN Some(FALSE) ELSE req[p].arg.includeDeleted)
      /\ req[p].items = RepoFindAll(Val(req[p].dto.includeDeleted))
      /\ Len(req[p].res.body) = Len(req[p].items)
      /\ IdsOf(req[p].res.body) = IdsOf(req[p].items)
      /\ req[p].arg.includeDeleted # Some(TRUE)
           => \A i \in 1..Len(req[p].res.body) : ~db[req[p].res.body[i].id].isDeleted
      /\ req[p].arg.includeDeleted = Some(TRUE)
           => {req[p].res.body[i].id : i \in 1..Len(req[p].res.body)} = DOMAIN db

\* findAll({}) returned two products whose images were resolved second
\* product first.
C8_Witness ==
  \E p \in Procs :
    /\ Finished(p, "findAll")
    /\ req[p].arg.includeDeleted = None
    /\ req[p].order = <<2, 1>>
    /\ IdsOf(req[p].res.body) = <<1, 2>>

\* C9 as stated: under every interleaving of requests, no stored field of a
\* soft-deleted product changes.
C9_DeletedIsFrozen ==
  [][\A id \in DOMAIN db : db[id].isDeleted => db'[id] = db[id]]_vars

\* C10 as stated: between requests run one at a time, the imageUrl of every
\* product that is not soft-deleted names an object of the object store.
C10_ImagesExist ==
  (\A p \in Procs : Free(p)) =>
    \A id \in DOMAIN db :
      ~db[id].isDeleted /\ db[id].imageUrl # None => KeyOf(db[id]) \in store

====
